---- MODULE Spec2Model ----
(***************************************************************************)
(* Model of src/etl/API CoinGecko.py: the retrying fetcher safe_request,   *)
(* the market-chart loader fetch_market_chart, the metrics engine          *)
(* compute_metrics, the metadata cache fetch_coin_metadata and the         *)
(* orchestrator run_etl.                                                   *)
(*                                                                         *)
(* Conventions.  Durations are in tenths of a second (1.0 s = 10).         *)
(* A pandas frame is a sequence of rows (records), in frame order.         *)
(* A float that the code computes by division is an exact fraction         *)
(* <<numerator, denominator>> in lowest terms with a positive denominator; *)
(* NaN is <<0, 0>>.  Prices are positive integers.                         *)
(***************************************************************************)
EXTENDS Integers, Sequences, FiniteSets, TLC

VARIABLES
  sr,       \* the activation of safe_request (arguments, loop index, outcome)
  mc,       \* the activation of fetch_market_chart (argument, response, result)
  cm,       \* an activation of compute_metrics (argument, result)
  cm2,      \* a second activation of compute_metrics, on another frame
  etl,      \* the activation of run_etl (argument, loop position, frames)
  prices_csv, \* the file PRICES_CSV
  md,       \* the activation of fetch_coin_metadata (argument, result)
  meta_csv  \* the file META_CSV, the persisted metadata snapshot

vars == <<sr, mc, cm, cm2, etl, prices_csv, md, meta_csv>>

(***************************************************************************)
(* Generic helpers                                                         *)
(***************************************************************************)
Max(a, b) == IF a >= b THEN a ELSE b

RECURSIVE Pow(_, _)
Pow(b, e) == IF e = 0 THEN 1 ELSE b * Pow(b, e - 1)

(***************************************************************************)
(* safe_request (lines 26-47)                                              *)
(***************************************************************************)
\* Default of the max_retries parameter.
DefaultMaxRetries == 8
\* Default of the backoff parameter (2.0).
DefaultBackoff == 2
\* Largest max_retries a direct caller of safe_request passes in the model.
MaxRetriesArg == 8

\* random.uniform(0.5, 1.5), in tenths: both ends and the middle.
JitterSet == {5, 10, 15}

\* The statuses the upstream answers with in the model: success, the five
\* retried statuses, one client error and one non-error status other than 200.
Statuses == {200, 204, 404, 429, 500, 502, 503, 504}

\* The tuple of line 33.
TransientStatuses == {429, 500, 502, 503, 504}

IsTransientStatus(status) == status \in TransientStatuses

\* requests' Response.raise_for_status raises HTTPError for a 4xx or 5xx
\* status and returns for any other.
RaiseForStatus(status) == status >= 400 /\ status < 600

\* wait = max(1.0, (backoff ** i) * jitter), lines 34-36 and 42-44.
WaitNoFloor(backoff, i, jitter) == Pow(backoff, i) * jitter
Wait(backoff, i, jitter) == Max(10, Pow(backoff, i) * jitter)

\* for i in range(max_retries): the loop runs its body while i < max_retries.
LoopRunsOneMore(i, max_retries) == i <= max_retries
LoopRuns(i, max_retries) == i < max_retries

\* The activation record at the call safe_request(url, params, max_retries, backoff).
\* nreq, nsleep count the calls of requests.get and time.sleep; nTransient counts
\* the outcomes that were a status of TransientStatuses or a network exception;
\* last is the kind of the latest outcome ("response", or "exception" for a
\* network exception), status the status of a response (0 without one) and
\* lastBody the value r.json() parsed from the body of a 200 response (<<>>
\* when it raised); result is <<v>> once the call has returned v;
\* wait is the argument of the latest time.sleep.
SrCall(url, max_retries, backoff) ==
  [state |-> "Attempting", url |-> url, max_retries |-> max_retries,
   backoff |-> backoff, i |-> 0, nreq |-> 0, nsleep |-> 0, nTransient |-> 0,
   last |-> "none", status |-> 0, lastBody |-> <<>>, wait |-> 0,
   result |-> <<>>, error |-> [type |-> "none"]]

SrIdle == [SrCall("none", 0, 0) EXCEPT !.state = "Idle"]

\* time.sleep(wait) followed by the next iteration of the loop.
SrSleepAndContinue(s, jitter) ==
  LET w == Wait(s.backoff, s.i, jitter)
  IN [s EXCEPT !.wait = w, !.nsleep = @ + 1, !.i = @ + 1]

\* Endpoints and 200 bodies of a direct call of safe_request: bodies that
\* are JSON, and bodies that are not (a page of markup, an empty body).
DirectUrls == {"u1", "u2"}
DirectBodies == {"payload1", "payload2"}
UnparsableBodies == {"<html>not json</html>", ""}

\* r.json(), line 32: <<v>> for the value v parsed from a JSON body (the
\* model names a JSON body by its value), <<>> when the body is not JSON and
\* r.json() raises requests.exceptions.JSONDecodeError.
RJson(body) == IF body \in UnparsableBodies THEN <<>> ELSE <<body>>

\* One iteration of the loop body (lines 29-46) for an upstream response
\* with the given status and body.
SrOnResponse(s, status, body, jitter) ==
  LET s1 == [s EXCEPT !.nreq = @ + 1, !.last = "response", !.status = status,
                      !.lastBody = IF status = 200 THEN RJson(body) ELSE <<>>]
  IN IF status = 200
       THEN IF RJson(body) # <<>>
              THEN [s1 EXCEPT !.state = "Succeeded", !.result = RJson(body)]
              \* line 32 raises JSONDecodeError inside the try; it is a
              \* subclass of requests.RequestException, so the except
              \* clause of line 41 catches it: lines 42-46 sleep and the
              \* loop goes on
              ELSE SrSleepAndContinue(s1, jitter)
     ELSE IF IsTransientStatus(status)
       THEN SrSleepAndContinue([s1 EXCEPT !.nTransient = @ + 1], jitter)
     ELSE IF RaiseForStatus(status)
       \* line 40 raises requests.HTTPError inside the try; HTTPError is a
       \* subclass of requests.RequestException, so the except clause of
       \* line 41 catches it: lines 42-46 sleep and the loop goes on
       THEN SrSleepAndContinue(s1, jitter)
     \* line 40 returns, nothing is raised, and the loop goes on without a sleep
     ELSE [s1 EXCEPT !.i = @ + 1]

\* One iteration in which requests.get raises a RequestException (timeout,
\* connection error): lines 41-46.
SrOnException(s, jitter) ==
  SrSleepAndContinue([s EXCEPT !.nreq = @ + 1, !.last = "exception",
                               !.status = 0, !.lastBody = <<>>,
                               !.nTransient = @ + 1], jitter)

\* Line 47, reached when the loop ends.
SrExhausted(s) ==
  [s EXCEPT !.state = "Raised",
            !.error = [type |-> "RuntimeError", url |-> s.url,
                       attempts |-> s.max_retries]]

\* Every activation record one more step of safe_request leads to from s,
\* "body" standing for any JSON body (the loop does not read its value).
SrSuccessors(s) ==
  IF s.state # "Attempting" THEN {}
  ELSE IF ~LoopRuns(s.i, s.max_retries) THEN {SrExhausted(s)}
  ELSE {SrOnResponse(s, status, body, jitter) :
          status \in Statuses, body \in {"body"} \cup UnparsableBodies,
          jitter \in JitterSet}
       \cup {SrOnException(s, jitter) : jitter \in JitterSet}

RECURSIVE SrReach(_, _)
SrReach(frontier, seen) ==
  IF frontier = {} THEN seen
  ELSE SrReach((UNION {SrSuccessors(s) : s \in frontier}) \ (seen \cup frontier),
               seen \cup frontier)

\* What a whole call safe_request(url, params) with the default max_retries
\* and backoff can end in, as its caller sees it: "Succeeded" (a 200 body is
\* returned) or "Raised" with the error.
SafeRequestOutcomes ==
  {[state |-> s.state, error |-> s.error] :
     s \in {t \in SrReach({SrCall("url", DefaultMaxRetries, DefaultBackoff)}, {}) :
              t.state # "Attempting"}}

(***************************************************************************)
(* fetch_market_chart (lines 111-128)                                      *)
(***************************************************************************)
VS_CURRENCY == "usd"

\* Asset identifiers of the model.
Coins == {"bitcoin", "ethereum"}

\* Milliseconds in a day: pd.to_datetime(..., unit="ms").dt.date keeps the
\* whole days since the epoch.
MsPerDay == 86400000
\* Timestamps are multiples of half a day, up to MaxHalfDays half days.
MaxHalfDays == 3
\* Largest number of price points in a response.
MaxPoints == 3

Timestamps == {k * (MsPerDay \div 2) : k \in 0..MaxHalfDays}
PriceSet == {10, 20, 30}

RECURSIVE SeqsUpTo(_, _)
SeqsUpTo(S, n) ==
  IF n = 0 THEN {<<>>}
  ELSE LET shorter == SeqsUpTo(S, n - 1)
       IN shorter \cup {Append(q, x) : q \in {r \in shorter : Len(r) = n - 1}, x \in S}

\* The "prices" lists of the market_chart endpoint: [timestamp_ms, price] pairs.
PriceLists == SeqsUpTo(Timestamps \X PriceSet, MaxPoints)

\* 200 bodies of the market_chart endpoint: an object with a "prices" list, or
\* one without that key.
ChartBodies == {[prices |-> l] : l \in PriceLists} \cup {[status |-> "no prices"]}

\* data.get("prices", []), line 118.
DataGetPrices(data) == IF "prices" \in DOMAIN data THEN data.prices ELSE <<>>

\* pd.to_datetime(timestamp_ms, unit="ms").dt.date, line 123, as days since the epoch.
ToDate(timestamp_ms) == timestamp_ms \div MsPerDay

\* Lines 122-125: one row per price point, in response order.
ChartRows(coin_id, vs_currency, prices) ==
  [k \in 1..Len(prices) |->
     [timestamp_ms |-> prices[k][1], price |-> prices[k][2],
      date |-> ToDate(prices[k][1]), coin_id |-> coin_id,
      vs_currency |-> vs_currency]]

\* df.sort_values(["coin_id", "date"]), line 127: pandas sorts on several keys
\* with a stable lexsort, and coin_id is the same in every row of this frame,
\* so this is a stable sort by date.
RECURSIVE SortValues(_)
SortValues(df) ==
  IF df = <<>> THEN <<>>
  ELSE LET n == Len(df)
           front == SortValues(SubSeq(df, 1, n - 1))
           r == df[n]
           \* r goes behind every row whose date is <= its own
           pos == Cardinality({k \in 1..Len(front) : front[k].date <= r.date})
       IN SubSeq(front, 1, pos) \o <<r>> \o SubSeq(front, pos + 1, Len(front))

\* df.drop_duplicates(["coin_id", "date"]), line 127: keep defaults to
\* "first", so a row is dropped when an earlier row has its key.
RECURSIVE DropDuplicatesKeepLast(_)
DropDuplicatesKeepLast(df) ==
  IF df = <<>> THEN <<>>
  ELSE LET r == df[1]
           rest == DropDuplicatesKeepLast(Tail(df))
       IN IF \E k \in 2..Len(df) :
               df[k].coin_id = r.coin_id /\ df[k].date = r.date
            THEN rest ELSE <<r>> \o rest

RECURSIVE DropDuplicates(_)
DropDuplicates(df) ==
  IF df = <<>> THEN <<>>
  ELSE LET n == Len(df)
           r == df[n]
           front == DropDuplicates(SubSeq(df, 1, n - 1))
       IN IF \E k \in 1..(n - 1) :
               df[k].coin_id = r.coin_id /\ df[k].date = r.date
            THEN front ELSE Append(front, r)

\* df[["date", "coin_id", "vs_currency", "price"]], line 128.
SelectChartColumns(df) ==
  [k \in 1..Len(df) |->
     [date |-> df[k].date, coin_id |-> df[k].coin_id,
      vs_currency |-> df[k].vs_currency, price |-> df[k].price]]

\* Lines 118-128: the frame fetch_market_chart returns for the body data.
MarketChartFrame(coin_id, vs_currency, data) ==
  LET prices == DataGetPrices(data)
  IN IF prices = <<>> THEN <<>>
     ELSE SelectChartColumns(
            DropDuplicates(SortValues(ChartRows(coin_id, vs_currency, prices))))

\* The activation of fetch_market_chart(coin_id): data is the body
\* safe_request returned (<<>> without one), df the frame it returns.
McCall(coin_id) ==
  [state |-> "Called", coin_id |-> coin_id, data |-> <<>>, df |-> <<>>,
   error |-> [type |-> "none"]]

McIdle == [McCall("none") EXCEPT !.state = "Idle"]

\* The outcomes of safe_request(url, params), the error naming this url.
SafeRequest(url) ==
  {[state |-> o.state,
    error |-> IF "url" \in DOMAIN o.error
                THEN [o.error EXCEPT !.url = url] ELSE o.error] :
     o \in SafeRequestOutcomes}

\* url of line 113.
ChartUrl(coin_id) == <<"/coins/", coin_id, "/market_chart">>

\* The whole of fetch_market_chart for one outcome of its safe_request call:
\* an exception of safe_request propagates, a body is normalised.
McRun(m, outcome, body) ==
  IF outcome.state = "Succeeded"
    THEN [m EXCEPT !.state = "Returned", !.data = <<body>>,
                   !.df = MarketChartFrame(m.coin_id, VS_CURRENCY, body)]
    ELSE [m EXCEPT !.state = "Raised", !.error = outcome.error]

FetchMarketChart ==
  /\ mc.state = "Called"
  /\ \E outcome \in SafeRequest(ChartUrl(mc.coin_id)), body \in ChartBodies :
       mc' = McRun(mc, outcome, body)
  /\ UNCHANGED <<sr, cm, cm2, etl, prices_csv, md, meta_csv>>

(***************************************************************************)
(* compute_metrics (lines 130-150)                                         *)
(***************************************************************************)
RECURSIVE Gcd(_, _)
Gcd(a, b) == IF b = 0 THEN a ELSE Gcd(b, a % b)

Abs(x) == IF x < 0 THEN -x ELSE x

NaN == <<0, 0>>
IsNaN(x) == x[2] = 0

\* The fraction n/d (d > 0) in lowest terms.
Frac(n, d) == LET g == Gcd(Abs(n), d) IN <<n \div g, d \div g>>
FromInt(n) == <<n, 1>>

\* Float arithmetic: NaN in, NaN out.  Divisors are prices or running
\* maxima of prices, which are positive.
FAdd(x, y) == IF IsNaN(x) \/ IsNaN(y) THEN NaN
              ELSE Frac(x[1] * y[2] + y[1] * x[2], x[2] * y[2])
FSub(x, y) == IF IsNaN(x) \/ IsNaN(y) THEN NaN
              ELSE Frac(x[1] * y[2] - y[1] * x[2], x[2] * y[2])
FMul(x, y) == IF IsNaN(x) \/ IsNaN(y) THEN NaN
              ELSE Frac(x[1] * y[1], x[2] * y[2])
FDiv(x, y) == IF IsNaN(x) \/ IsNaN(y) THEN NaN
              ELSE Frac(x[1] * y[2], x[2] * y[1])
\* Series.fillna(0.0), lines 148-149.
FillNa0(x) == IF IsNaN(x) THEN FromInt(0) ELSE x

\* df.groupby("coin_id"): the positions 1..j of the rows of row j's group,
\* in frame order.
GroupUpTo(df, j) ==
  SelectSeq([k \in 1..j |-> k], LAMBDA k : df[k].coin_id = df[j].coin_id)

\* The ungrouped column: the positions 1..j.
ColumnUpTo(df, j) == [k \in 1..j |-> k]

RECURSIVE SeqMax(_)
SeqMax(q) == IF Len(q) = 1 THEN q[1] ELSE Max(q[1], SeqMax(Tail(q)))

RECURSIVE SeqSum(_)
SeqSum(q) == IF q = <<>> THEN 0 ELSE q[1] + SeqSum(Tail(q))

\* The prices at the positions idx.
PricesAt(df, idx) == [k \in 1..Len(idx) |-> df[idx[k]].price]

\* groupby("coin_id")["price"].shift(1), line 133: the price of the row
\* before row j in its group, NaN for the first row of a group.
PriceLag(df, j) ==
  LET g == GroupUpTo(df, j)
  IN IF Len(g) = 1 THEN NaN ELSE FromInt(df[g[Len(g) - 1]].price)

\* Line 134, before the fillna of line 148.
DailyReturnRaw(df, j) ==
  FSub(FDiv(FromInt(df[j].price), PriceLag(df, j)), FromInt(1))

\* s.rolling(window, min_periods=1).mean() within the group, lines 137-138.
RollingMean(df, j, window) ==
  LET p == PricesAt(df, GroupUpTo(df, j))
      n == IF Len(p) < window THEN Len(p) ELSE window
  IN Frac(SeqSum(SubSeq(p, Len(p) - n + 1, Len(p))), n)

\* (1 + s).cumprod() over the rows idx: cumprod skips NaN, so a NaN factor
\* leaves the running product as it was.
RECURSIVE CumProdOnePlus(_, _)
CumProdOnePlus(df, idx) ==
  IF idx = <<>> THEN FromInt(1)
  ELSE LET f == FAdd(FromInt(1), DailyReturnRaw(df, idx[Len(idx)]))
           before == CumProdOnePlus(df, SubSeq(idx, 1, Len(idx) - 1))
       IN IF IsNaN(f) THEN before ELSE FMul(before, f)

\* Line 140: (1 + s).cumprod() - 1 per group over the unfilled daily_return;
\* the result is NaN where daily_return is NaN, and is not filled afterwards.
CumReturn(df, j) ==
  IF IsNaN(DailyReturnRaw(df, j)) THEN NaN
  ELSE FSub(CumProdOnePlus(df, GroupUpTo(df, j)), FromInt(1))

\* Line 145: groupby("coin_id")["price"].transform(cummax).
RollingMaxPrice(df, j) == SeqMax(PricesAt(df, GroupUpTo(df, j)))

\* Lines 142-146: drawdown(df["price"]) is called on the whole price column,
\* without groupby, so cummax runs over every row of the frame up to row j.
Drawdown(df, j) ==
  LET cummax == SeqMax(PricesAt(df, ColumnUpTo(df, j)))
  IN FDiv(FSub(FromInt(df[j].price), FromInt(cummax)), FromInt(cummax))

\* The frame compute_metrics returns: the input columns and the derived ones,
\* rows in the order of the input.
compute_metrics(df) ==
  [j \in 1..Len(df) |->
     [date |-> df[j].date, coin_id |-> df[j].coin_id,
      vs_currency |-> df[j].vs_currency, price |-> df[j].price,
      daily_return |-> FillNa0(DailyReturnRaw(df, j)),
      pct_change |-> FillNa0(FMul(DailyReturnRaw(df, j), FromInt(100))),
      ma_7 |-> RollingMean(df, j, 7),
      ma_30 |-> RollingMean(df, j, 30),
      cum_return |-> CumReturn(df, j),
      rolling_max_price |-> RollingMaxPrice(df, j),
      drawdown |-> Drawdown(df, j)]]

\* An activation of compute_metrics(df).
CmCall(df) == [state |-> "Called", df |-> df, out |-> <<>>]
CmIdle == [CmCall(<<>>) EXCEPT !.state = "Idle"]
CmRun(c) == [c EXCEPT !.state = "Returned", !.out = compute_metrics(c.df)]

ComputeMetrics ==
  /\ cm.state = "Called"
  /\ cm' = CmRun(cm)
  /\ UNCHANGED <<sr, mc, cm2, etl, prices_csv, md, meta_csv>>

ComputeMetricsAgain ==
  /\ cm.state = "Returned" /\ cm2.state = "Called"
  /\ cm2' = CmRun(cm2)
  /\ UNCHANGED <<sr, mc, cm, etl, prices_csv, md, meta_csv>>

(***************************************************************************)
(* Files                                                                   *)
(***************************************************************************)
\* A file that does not exist.
NoFile == [exists |-> FALSE, readable |-> FALSE, rows |-> <<>>]
\* An existing file pd.read_csv raises on (empty, or not a csv table).
UnreadableFile == [exists |-> TRUE, readable |-> FALSE, rows |-> <<>>]
\* df.to_csv(path, index=False): the file holds the rows of df.  A frame
\* without rows has no columns here (DataFrame([])), and pandas writes a file
\* for it that read_csv raises EmptyDataError on.
ToCsv(df) == [exists |-> TRUE, readable |-> df # <<>>, rows |-> df]
\* pd.read_csv(path) returns a frame (and does not raise).
CanRead(file) == file.exists /\ file.readable

(***************************************************************************)
(* fetch_coin_metadata (lines 50-108)                                      *)
(* A metadata record is [coin_id, symbol, name, market_cap_rank], the rank *)
(* being <<n>>, or <<>> when absent (None, or NaN once read from the csv). *)
(***************************************************************************)
\* The model's asset ids in the order sorted() gives them.
CoinOrder == <<"bitcoin", "ethereum">>

\* cid[:4].upper() and cid.replace("-", " ").title(), lines 55-56, for the
\* model's asset ids.
FallbackSymbol == [bitcoin |-> "BITC", ethereum |-> "ETHE"]
FallbackName == [bitcoin |-> "Bitcoin", ethereum |-> "Ethereum"]

\* _fallback_meta_from_ids, lines 50-59: one row per entry of coin_ids.
FallbackMetaFromIds(coin_ids) ==
  [k \in 1..Len(coin_ids) |->
     [coin_id |-> coin_ids[k], symbol |-> FallbackSymbol[coin_ids[k]],
      name |-> FallbackName[coin_ids[k]], market_cap_rank |-> <<>>]]

\* What the markets endpoint lists for an asset: its symbol, its name and a rank.
ApiSymbol == [bitcoin |-> "btc", ethereum |-> "eth"]
ApiName == [bitcoin |-> "Bitcoin", ethereum |-> "Ethereum"]
ApiRanks == {1, 2}
ApiRow(cid, rank) ==
  [id |-> cid, symbol |-> ApiSymbol[cid], name |-> ApiName[cid],
   market_cap_rank |-> <<rank>>]

\* Sequences without repeated entries over the set S.
RECURSIVE DistinctSeqs(_)
DistinctSeqs(S) ==
  {<<>>} \cup UNION {{<<x>> \o q : q \in DistinctSeqs(S \ {x})} : x \in S}

\* 200 bodies of the markets endpoint, as JSON values tagged with their
\* kind: a list of rows for some of the assets, each asset at most once, or
\* an error object instead of a list.
MarketsBodies ==
  UNION {{[kind |-> "list",
           items |-> [k \in 1..Len(ids) |-> ApiRow(ids[k], rk[k])]] :
            rk \in [1..Len(ids) -> ApiRanks]} : ids \in DistinctSeqs(Coins)}
  \cup {[kind |-> "object", items |-> <<>>]}

\* The body is a list of row objects, which the loop of lines 81-87 can
\* read; on an object, row.get raises and the except of line 98 takes over.
IsRowList(data) == data.kind = "list"

\* Lines 80-88: the records built from the response rows.
MetaRows(data) ==
  [k \in 1..Len(data.items) |->
     [coin_id |-> data.items[k].id, symbol |-> data.items[k].symbol,
      name |-> data.items[k].name,
      market_cap_rank |-> data.items[k].market_cap_rank]]

\* have = set(str(x) for x in meta_old["coin_id"].tolist()), line 66.
Have(meta_old) == {meta_old[k].coin_id : k \in 1..Len(meta_old)}

\* missing = [c for c in coin_ids if c not in have], line 67.
MissingAll(coin_ids, have) == coin_ids
Missing(coin_ids, have) == SelectSeq(coin_ids, LAMBDA c : c \notin have)

\* The other keep of drop_duplicates: the first record of each id stays.
RECURSIVE MetaKeepFirstOnly(_)
MetaKeepFirstOnly(df) ==
  IF df = <<>> THEN <<>>
  ELSE LET n == Len(df)
           front == MetaKeepFirstOnly(SubSeq(df, 1, n - 1))
       IN IF \E k \in 1..(n - 1) : df[k].coin_id = df[n].coin_id
            THEN front ELSE Append(front, df[n])

\* drop_duplicates(subset=["coin_id"], keep="last"), line 94.
RECURSIVE MetaDropDuplicatesLast(_)
MetaDropDuplicatesLast(df) ==
  IF df = <<>> THEN <<>>
  ELSE LET rest == MetaDropDuplicatesLast(Tail(df))
       IN IF \E k \in 2..Len(df) : df[k].coin_id = df[1].coin_id
            THEN rest ELSE <<df[1]>> \o rest

\* The other keep of drop_duplicates: the last record of each id stays.
MetaKeepLastOnly(df) == MetaDropDuplicatesLast(df)

\* drop_duplicates(subset=["coin_id"], keep="first"), line 105.
RECURSIVE MetaDropDuplicatesFirst(_)
MetaDropDuplicatesFirst(df) ==
  IF df = <<>> THEN <<>>
  ELSE LET n == Len(df)
           front == MetaDropDuplicatesFirst(SubSeq(df, 1, n - 1))
       IN IF \E k \in 1..(n - 1) : df[k].coin_id = df[n].coin_id
            THEN front ELSE Append(front, df[n])

\* url of line 76.
MarketsUrl == <<"/coins/markets">>

\* The activation of fetch_coin_metadata(coin_ids): out is the frame it
\* returns, calls the number of times it has called safe_request, slept the
\* duration of its time.sleep (tenths), path the return statement it left by,
\* meta_rows the records of line 88 when the loop of lines 81-87 completed,
\* caught the type of the exception the except of line 98 handled, error the
\* exception the call raised to its caller, events what the call did to the
\* outside one after the other: "read_meta" for a pd.read_csv(META_CSV),
\* "sleep" for a time.sleep, "request_meta" for its safe_request.
MdCall(coin_ids) ==
  [state |-> "Called", coin_ids |-> coin_ids, out |-> <<>>, calls |-> 0,
   slept |-> 0, path |-> "none", meta_rows |-> <<>>, caught |-> "none",
   error |-> [type |-> "none"], events |-> <<>>]

MdIdle == [MdCall(<<>>) EXCEPT !.state = "Idle"]

\* if os.path.exists(META_CSV): ... pd.read_csv(META_CSV), lines 63-65,
\* 90-92 and 101-103: the file is read when it exists.
MdReadAndSaveEvents(file) == <<"read_meta", "save_meta">>
MdReadEvents(file) == IF file.exists THEN <<"read_meta">> ELSE <<>>

\* Lines 63-71: the snapshot can be read and holds every requested id.
CacheHit(file, coin_ids) ==
  CanRead(file) /\ Missing(coin_ids, Have(file.rows)) = <<>>

\* except Exception, lines 70, 95, 98 and 106: the clause handles every
\* exception the guarded code raises here, RuntimeError of safe_request and
\* AttributeError of row.get being subclasses of Exception.
ExceptRequestException(error) == error.type = "RequestException"
ExceptException(error) == error.type \in {"RuntimeError", "AttributeError"}

\* The try block of lines 75-97, given the snapshot file and the outcome of
\* its safe_request call: the exception of safe_request, or of row.get on a
\* body that is no list of rows, leaves the block; otherwise the fetched
\* records are merged into the snapshot and returned.
MdTry(m, file, outcome, body) ==
  LET m1 == [m EXCEPT !.slept = 60, !.calls = @ + 1,
                      !.events = MdReadEvents(file) \o <<"sleep", "request_meta">>]
  IN IF outcome.state # "Succeeded"
       THEN [m1 EXCEPT !.state = "Raised", !.error = outcome.error]
     ELSE IF ~IsRowList(body)
       THEN [m1 EXCEPT !.state = "Raised", !.error = [type |-> "AttributeError"]]
     ELSE [m1 EXCEPT !.state = "Returned", !.path = "fetched",
                     !.meta_rows = MetaRows(body),
                     !.events = @ \o MdReadEvents(file),
                     !.out = IF CanRead(file)
                               THEN MetaDropDuplicatesLast(file.rows \o MetaRows(body))
                               ELSE MetaRows(body)]

\* A handler that returns the placeholders alone.
MdExceptNoMerge(m, file) ==
  [m EXCEPT !.state = "Returned", !.path = "fallback",
            !.caught = m.error.type, !.error = [type |-> "none"],
            !.out = FallbackMetaFromIds(m.coin_ids)]

\* The handler of lines 98-108: placeholders merged into the snapshot.
MdExcept(m, file) ==
  [m EXCEPT !.state = "Returned", !.path = "fallback",
            !.caught = m.error.type, !.error = [type |-> "none"],
            !.events = @ \o MdReadEvents(file),
            !.out = IF CanRead(file)
                      THEN MetaDropDuplicatesFirst(
                             file.rows \o FallbackMetaFromIds(m.coin_ids))
                      ELSE FallbackMetaFromIds(m.coin_ids)]

\* The whole of fetch_coin_metadata, given the snapshot file and the outcome
\* of its safe_request call (not made on a cache hit).
MdRun(m, file, outcome, body) ==
  IF CacheHit(file, m.coin_ids)
    THEN [m EXCEPT !.state = "Returned", !.out = file.rows, !.path = "cache",
                   !.events = MdReadEvents(file)]
  ELSE
    LET t == MdTry(m, file, outcome, body)
    IN IF t.state = "Raised" /\ ExceptException(t.error)
         THEN MdExcept(t, file)
         ELSE t

FetchCoinMetadata ==
  /\ md.state = "Called"
  /\ \E outcome \in SafeRequest(MarketsUrl), body \in MarketsBodies :
       md' = MdRun(md, meta_csv, outcome, body)
  /\ UNCHANGED <<sr, mc, cm, cm2, etl, prices_csv, meta_csv>>

\* The records a snapshot holds for an asset: what the API listed in an
\* earlier run, or the placeholder of a failed one.
SnapshotRecords(cid) ==
  {[coin_id |-> cid, symbol |-> ApiSymbol[cid], name |-> ApiName[cid],
    market_cap_rank |-> <<rank>>] : rank \in ApiRanks}
  \cup {FallbackMetaFromIds(<<cid>>)[1]}

\* The states of META_CSV before a call: absent, unreadable, or holding one
\* record for each of some assets.
MetaFiles ==
  {NoFile, UnreadableFile}
  \cup UNION {{ToCsv(rows) :
                 rows \in {r \in [1..Len(ids) -> UNION {SnapshotRecords(c) : c \in Coins}] :
                             \A k \in 1..Len(ids) : r[k].coin_id = ids[k]}} :
              ids \in DistinctSeqs(Coins) \ {<<>>}}

(***************************************************************************)
(* run_etl (lines 159-189)                                                 *)
(***************************************************************************)
\* pd.concat(frames, ignore_index=True), line 179: the rows of the frames,
\* one frame after the other.
RECURSIVE Concat(_)
Concat(frames) ==
  IF frames = <<>> THEN <<>> ELSE frames[1] \o Concat(Tail(frames))

\* The activation of run_etl(coin_ids): k is the position in coin_ids of the
\* asset the loop of line 167 fetches next, frames the list of line 166,
\* slept the duration of the latest time.sleep of run_etl itself (tenths),
\* run the number of calls of run_etl so far, this one included, log what
\* this run did to the outside one after the other: "fetch" for a call of
\* fetch_market_chart, "sleep" for a time.sleep of run_etl, "metrics" for
\* compute_metrics, "save_prices" and "save_meta" for the two to_csv, and the
\* events of fetch_coin_metadata.
EtlCall(coin_ids) ==
  [state |-> "Fetching", coin_ids |-> coin_ids, k |-> 1, frames |-> <<>>,
   slept |-> 0, error |-> [type |-> "none"], run |-> 1, log |-> <<>>]

EtlIdle == [EtlCall(<<>>) EXCEPT !.state = "Idle"]

\* Lines 167-174 for one asset: the frame fetch_market_chart returned is
\* skipped when empty, and appended and followed by time.sleep(1.1) otherwise;
\* an exception of fetch_market_chart ends run_etl.
EtlAfterChartEmptyRaises(e, m) ==
  IF m.state = "Raised" \/ m.df = <<>>
    THEN [e EXCEPT !.state = "Raised", !.error = [type |-> "RuntimeError"]]
  ELSE [e EXCEPT !.k = @ + 1, !.frames = Append(@, m.df), !.slept = 11]
EtlAfterChart(e, m) ==
  IF m.state = "Raised"
    THEN [e EXCEPT !.state = "Raised", !.error = m.error,
                   !.log = Append(@, "fetch")]
  ELSE IF m.df = <<>>
    THEN [e EXCEPT !.k = @ + 1, !.log = Append(@, "fetch")]
  ELSE [e EXCEPT !.k = @ + 1, !.frames = Append(@, m.df), !.slept = 11,
                 !.log = @ \o <<"fetch", "sleep">>]

\* The price lists the upstream answers run_etl's requests with: none, one
\* point, two days, and two points of one day behind a later-listed earlier day.
EtlPriceLists ==
  { <<>>,
    << <<0, 10>> >>,
    << <<0, 10>>, <<MsPerDay, 20>> >>,
    << <<MsPerDay, 20>>, <<0, 10>>, <<MsPerDay + MsPerDay \div 2, 30>> >> }

EtlChartBodies == {[prices |-> l] : l \in EtlPriceLists} \cup {[status |-> "no prices"]}

\* Lines 167-174 for the next asset of coin_ids, the upstream answering
\* with one of bodies.
EtlFetchAssetFrom(bodies) ==
  /\ etl.state = "Fetching" /\ etl.k <= Len(etl.coin_ids)
  /\ \E outcome \in SafeRequest(ChartUrl(etl.coin_ids[etl.k])),
        body \in bodies :
       LET m == McRun(McCall(etl.coin_ids[etl.k]), outcome, body)
       IN /\ mc' = m
          /\ etl' = EtlAfterChart(etl, m)
  /\ UNCHANGED <<sr, cm, cm2, prices_csv, md, meta_csv>>

EtlFetchAsset == EtlFetchAssetFrom(EtlChartBodies)

\* not frames, line 176.
NeverNoFrames(frames) == FALSE
NoFrames(frames) == frames = <<>>

\* Lines 176-177.
EtlNoData ==
  /\ etl.state = "Fetching" /\ etl.k > Len(etl.coin_ids)
  /\ NoFrames(etl.frames)
  /\ etl' = [etl EXCEPT !.state = "Raised",
                        !.error = [type |-> "RuntimeError",
                                   message |-> "Nenhum dado retornado."]]
  /\ UNCHANGED <<sr, mc, cm, cm2, prices_csv, md, meta_csv>>

\* Lines 179-185: concat, compute_metrics, to_csv(PRICES_CSV), time.sleep(4).
EtlComputeAndSave ==
  /\ etl.state = "Fetching" /\ etl.k > Len(etl.coin_ids)
  /\ ~NoFrames(etl.frames)
  /\ cm' = CmRun(CmCall(Concat(etl.frames)))
  /\ prices_csv' = ToCsv(cm'.out)
  /\ etl' = [etl EXCEPT !.state = "PricesSaved", !.slept = 40,
                        !.log = @ \o <<"metrics", "save_prices", "sleep">>]
  /\ UNCHANGED <<sr, mc, cm2, md, meta_csv>>

\* sorted(df_all['coin_id'].unique().tolist()), line 187.
SortedUniqueCoinIds(df) ==
  SelectSeq(CoinOrder, LAMBDA c : \E k \in 1..Len(df) : df[k].coin_id = c)

\* Line 187: fetch_coin_metadata for the assets of the saved dataset; an
\* exception it raised would end run_etl.
EtlResolveMetadata ==
  /\ etl.state = "PricesSaved"
  /\ \E outcome \in SafeRequest(MarketsUrl), body \in MarketsBodies :
       md' = MdRun(MdCall(SortedUniqueCoinIds(cm.out)), meta_csv, outcome, body)
  /\ etl' = IF md'.state = "Raised"
              THEN [etl EXCEPT !.state = "Raised", !.error = md'.error,
                               !.log = @ \o md'.events]
              ELSE [etl EXCEPT !.state = "MetaResolved",
                               !.log = @ \o md'.events]
  /\ UNCHANGED <<sr, mc, cm, cm2, prices_csv, meta_csv>>

\* Line 188: meta.to_csv(META_CSV).
EtlSaveMetadata ==
  /\ etl.state = "MetaResolved"
  /\ meta_csv' = ToCsv(md.out)
  /\ etl' = [etl EXCEPT !.state = "Done", !.log = Append(@, "save_meta")]
  /\ UNCHANGED <<sr, mc, cm, cm2, prices_csv, md>>

\* ---- actions of safe_request ----
SrRunning == sr.state = "Attempting" /\ LoopRuns(sr.i, sr.max_retries)

RequestOk ==
  /\ SrRunning
  /\ \E body \in DirectBodies :
       sr' = SrOnResponse(sr, 200, body, 10)
  /\ UNCHANGED <<mc, cm, cm2, etl, prices_csv, md, meta_csv>>

\* A 200 response whose body r.json() cannot parse.
RequestBadJson ==
  /\ SrRunning
  /\ \E body \in UnparsableBodies, jitter \in JitterSet :
       sr' = SrOnResponse(sr, 200, body, jitter)
  /\ UNCHANGED <<mc, cm, cm2, etl, prices_csv, md, meta_csv>>

RequestTransient ==
  /\ SrRunning
  /\ \E status \in Statuses, jitter \in JitterSet :
       /\ status # 200 /\ IsTransientStatus(status)
       /\ sr' = SrOnResponse(sr, status, <<>>, jitter)
  /\ UNCHANGED <<mc, cm, cm2, etl, prices_csv, md, meta_csv>>

RequestHttpError ==
  /\ SrRunning
  /\ \E status \in Statuses, jitter \in JitterSet :
       /\ status # 200 /\ ~IsTransientStatus(status) /\ RaiseForStatus(status)
       /\ sr' = SrOnResponse(sr, status, <<>>, jitter)
  /\ UNCHANGED <<mc, cm, cm2, etl, prices_csv, md, meta_csv>>

RequestOtherStatus ==
  /\ SrRunning
  /\ \E status \in Statuses :
       /\ status # 200 /\ ~IsTransientStatus(status) /\ ~RaiseForStatus(status)
       /\ sr' = SrOnResponse(sr, status, <<>>, 10)
  /\ UNCHANGED <<mc, cm, cm2, etl, prices_csv, md, meta_csv>>

RequestException ==
  /\ SrRunning
  /\ \E jitter \in JitterSet : sr' = SrOnException(sr, jitter)
  /\ UNCHANGED <<mc, cm, cm2, etl, prices_csv, md, meta_csv>>

RetriesExhausted ==
  /\ sr.state = "Attempting" /\ ~LoopRuns(sr.i, sr.max_retries)
  /\ sr' = SrExhausted(sr)
  /\ UNCHANGED <<mc, cm, cm2, etl, prices_csv, md, meta_csv>>

SafeRequestStep ==
  \/ RequestOk
  \/ RequestBadJson
  \/ RequestTransient
  \/ RequestHttpError
  \/ RequestOtherStatus
  \/ RequestException
  \/ RetriesExhausted

(***************************************************************************)
(* SpecFetch: safe_request called on its own, with any max_retries up to   *)
(* MaxRetriesArg and the default backoff.                                  *)
(***************************************************************************)
InitFetch ==
  /\ \E url \in DirectUrls, m \in (0..MaxRetriesArg) \cup {DefaultMaxRetries} :
       sr = SrCall(url, m, DefaultBackoff)
  /\ mc = McIdle
  /\ cm = CmIdle /\ cm2 = CmIdle
  /\ etl = EtlIdle /\ prices_csv = NoFile
  /\ md = MdIdle /\ meta_csv = NoFile

NextFetch == SafeRequestStep

SpecFetch == InitFetch /\ [][NextFetch]_vars

\* The latest outcome was a status that is neither 200 nor one of line 33.
LastWasOtherStatus ==
  sr.last = "response" /\ sr.status # 200 /\ sr.status \notin TransientStatuses

\* Every outcome of the call so far was a transient one.
AllTransientSoFar == sr.nTransient = sr.nreq

\* C1: a response whose status is neither 200 nor one of {429, 500, 502, 503,
\* 504} makes safe_request raise at once: after such a response the call has
\* raised, and it slept only after the transient outcomes before it.
C1_OtherStatusRaisesAtOnce ==
  LastWasOtherStatus =>
    /\ sr.state = "Raised"
    /\ sr.nsleep = sr.nTransient

\* C2 as stated: after k < max_retries transient outcomes the call is still
\* attempting; when a 200 response follows them, whatever its body, the call
\* has returned the parsed body of that response after k+1 requests and k
\* sleeps; and every sleep waits at least 1.0 s (the latest sleep, in every
\* state).
C2_TransientsThenAny200 ==
  /\ (AllTransientSoFar /\ sr.nreq < sr.max_retries) =>
        (sr.state = "Attempting" /\ sr.i = sr.nreq /\ sr.nsleep = sr.nreq)
  /\ (sr.last = "response" /\ sr.status = 200 /\ sr.nTransient = sr.nreq - 1) =>
        /\ sr.state = "Succeeded"
        /\ sr.result = sr.lastBody /\ Len(sr.result) = 1
        /\ sr.nreq <= sr.max_retries
        /\ sr.nsleep = sr.nreq - 1
  /\ (sr.nsleep > 0 => sr.wait >= 10)

\* C2 amended: after k < max_retries transient outcomes the call is still
\* attempting; when a 200 response whose body is JSON follows them the call
\* has returned the parsed body after k+1 requests and k sleeps; when the
\* body of that 200 response is not JSON the call has not returned: it has
\* slept once more and goes on; and every sleep waits at least 1.0 s.
C2_TransientsThenOk ==
  /\ (AllTransientSoFar /\ sr.nreq < sr.max_retries) =>
        (sr.state = "Attempting" /\ sr.i = sr.nreq /\ sr.nsleep = sr.nreq)
  /\ (sr.last = "response" /\ sr.status = 200 /\ sr.nTransient = sr.nreq - 1) =>
        /\ sr.nreq <= sr.max_retries
        /\ sr.lastBody # <<>> =>
              /\ sr.state = "Succeeded"
              /\ sr.result = sr.lastBody /\ Len(sr.result) = 1
              /\ sr.nsleep = sr.nreq - 1
        /\ sr.lastBody = <<>> =>
              /\ sr.state \in {"Attempting", "Raised"} /\ sr.result = <<>>
              /\ sr.nsleep = sr.nreq /\ sr.i = sr.nreq
  /\ (sr.nsleep > 0 => sr.wait >= 10)

\* [503, 503, 200]-shaped run: two transient outcomes, then success.
C2_Witness ==
  /\ sr.state = "Succeeded" /\ sr.nreq = 3 /\ sr.nTransient = 2
  /\ sr.nsleep = 2 /\ sr.result = <<"payload1">>

\* C3: when every attempt ends in a transient outcome the call never issues
\* more than max_retries requests, never returns, and once it has raised it
\* has issued exactly max_retries requests and the error names the url and
\* the attempt count.
C3_ExhaustedAfterMaxRetries ==
  /\ sr.nreq <= sr.max_retries
  /\ AllTransientSoFar =>
        /\ sr.state # "Succeeded" /\ sr.result = <<>>
        /\ sr.state = "Raised" =>
              /\ sr.nreq = sr.max_retries
              /\ sr.error = [type |-> "RuntimeError", url |-> sr.url,
                             attempts |-> sr.max_retries]

C3_Witness ==
  /\ sr.state = "Raised" /\ sr.max_retries = DefaultMaxRetries
  /\ sr.nTransient = DefaultMaxRetries /\ sr.nreq = DefaultMaxRetries

\* C4: the call issues at most max_retries requests and ends either returned
\* (with the body of a 200 response) or raised; and the attempt counter has
\* moved past 0 only on a transient classification of the latest outcome.
C4_BoundedStateMachine ==
  /\ sr.nreq <= sr.max_retries
  /\ sr.state \in {"Attempting", "Succeeded", "Raised"}
  /\ sr.state = "Succeeded" =>
        (sr.status = 200 /\ sr.result = sr.lastBody /\ Len(sr.result) = 1)
  /\ sr.state = "Raised" => sr.error.type # "none"
  /\ (sr.state = "Attempting" /\ sr.i > 0) =>
        (sr.last = "exception" \/ sr.status \in TransientStatuses)

\* C19: safe_request sleeps only between requests: a call that has ended,
\* by returning or by raising, after one request or more has slept once less
\* than it has requested, and a call still attempting has not slept more
\* often than it has requested.
C19_SleepsOnlyBetweenRetries ==
  /\ (sr.state \in {"Succeeded", "Raised"} /\ sr.nreq > 0) =>
        sr.nsleep = sr.nreq - 1
  /\ sr.state = "Attempting" => sr.nsleep <= sr.nreq

(***************************************************************************)
(* SpecChart: fetch_market_chart called on its own for one asset.          *)
(***************************************************************************)
InitChart ==
  /\ sr = SrIdle
  /\ \E coin_id \in Coins : mc = McCall(coin_id)
  /\ cm = CmIdle /\ cm2 = CmIdle
  /\ etl = EtlIdle /\ prices_csv = NoFile
  /\ md = MdIdle /\ meta_csv = NoFile

NextChart == FetchMarketChart

SpecChart == InitChart /\ [][NextChart]_vars

\* The price points of the response fetch_market_chart normalised.
McPrices == DataGetPrices(mc.data[1])

\* Positions, in response order, of the points that fall on date d.
PointsOn(prices, d) == {k \in 1..Len(prices) : ToDate(prices[k][1]) = d}

\* Dates that two or more points of the response fall on.
RepeatedDates(prices) ==
  {d \in {ToDate(prices[k][1]) : k \in 1..Len(prices)} :
     Cardinality(PointsOn(prices, d)) >= 2}

SetMin(S) == CHOOSE x \in S : \A y \in S : x <= y
SetMax(S) == CHOOSE x \in S : \A y \in S : x >= y

\* The rows of the returned frame for date d.
McRowsOn(d) ==
  {k \in 1..Len(mc.df) : mc.df[k].date = d /\ mc.df[k].coin_id = mc.coin_id}

\* C5 as stated: for every date that two or more points of the response fall
\* on, the returned frame holds exactly one row, and its price is that of the
\* last such point (the sort by date is stable, so the last one in the sorted
\* sequence is the last one of the response).
C5_KeepsLastOfDate ==
  (mc.state = "Returned" /\ McPrices # <<>>) =>
    \A d \in RepeatedDates(McPrices) :
      /\ Cardinality(McRowsOn(d)) = 1
      /\ \A k \in McRowsOn(d) :
           mc.df[k].price = McPrices[SetMax(PointsOn(McPrices, d))][2]

\* C5 amended: for every date that two or more points of the response fall
\* on, the returned frame holds exactly one row, and its price is that of the
\* first such point of the date-sorted sequence (the earliest one of the
\* response).
C5_KeepsFirstOfDate ==
  (mc.state = "Returned" /\ McPrices # <<>>) =>
    \A d \in RepeatedDates(McPrices) :
      /\ Cardinality(McRowsOn(d)) = 1
      /\ \A k \in McRowsOn(d) :
           mc.df[k].price = McPrices[SetMin(PointsOn(McPrices, d))][2]

\* Two points on day 1 with different prices, behind a point of day 0 that
\* comes last in the response: one row per date is returned, in date order.
C5_Witness ==
  /\ mc.state = "Returned"
  /\ McPrices = << <<MsPerDay, 20>>, <<MsPerDay + MsPerDay \div 2, 30>>, <<0, 10>> >>
  /\ Len(mc.df) = 2
  /\ mc.df[1].date = 0 /\ mc.df[1].price = 10
  /\ mc.df[2].date = 1 /\ mc.df[2].price = 20

(***************************************************************************)
(* SpecMetrics: compute_metrics called on two frames, one after the other. *)
(* A frame holds up to MaxRows rows of any assets in any order; within an  *)
(* asset the dates are 0, 1, 2, ... in frame order.                        *)
(***************************************************************************)
MaxRows == 3
MetricPrices == {10, 20}

\* The frame of the rows <<coin_id, price>> of q.
MetricFrame(q) ==
  [j \in 1..Len(q) |->
     [date |-> Cardinality({k \in 1..(j - 1) : q[k][1] = q[j][1]}),
      coin_id |-> q[j][1], vs_currency |-> VS_CURRENCY, price |-> q[j][2]]]

MetricFrames == {MetricFrame(q) : q \in SeqsUpTo(Coins \X MetricPrices, MaxRows)}

InitMetrics ==
  /\ sr = SrIdle /\ mc = McIdle
  /\ \E df \in MetricFrames : cm = CmCall(df)
  /\ \E df \in MetricFrames : cm2 = CmCall(df)
  /\ etl = EtlIdle /\ prices_csv = NoFile
  /\ md = MdIdle /\ meta_csv = NoFile

NextMetrics == ComputeMetrics \/ ComputeMetricsAgain

SpecMetrics == InitMetrics /\ [][NextMetrics]_vars

\* The rows of asset a in frame df, in frame order.
RowsOf(df, a) == SelectSeq(df, LAMBDA r : r.coin_id = a)

\* The positions up to j of the rows of row j's asset.
SameAssetUpTo(df, j) == {k \in 1..j : df[k].coin_id = df[j].coin_id}

\* C7: in every row compute_metrics returns, rolling_max_price is the running
\* maximum of that asset's own prices, drawdown <= 0, and drawdown = 0 exactly
\* when price = rolling_max_price.
C7_DrawdownZeroIffAtMax ==
  cm.state = "Returned" =>
    \A j \in 1..Len(cm.out) :
      LET r == cm.out[j]
      IN /\ r.rolling_max_price =
              SetMax({cm.df[k].price : k \in SameAssetUpTo(cm.df, j)})
         /\ ~IsNaN(r.drawdown) /\ r.drawdown[1] <= 0
         /\ (r.drawdown[1] = 0) <=> (r.price = r.rolling_max_price)

\* C8: when two frames hold the same rows for an asset, in the same order,
\* compute_metrics returns the same rows, derived columns included, for that
\* asset from both, whatever the other rows of the two frames.
C8_NoCrossAssetLeakage ==
  (cm.state = "Returned" /\ cm2.state = "Returned") =>
    \A a \in Coins :
      RowsOf(cm.df, a) = RowsOf(cm2.df, a) =>
        RowsOf(cm.out, a) = RowsOf(cm2.out, a)

\* The product of (1 + daily_return) of the output rows at the positions K.
RECURSIVE ProdOnePlusReturn(_, _)
ProdOnePlusReturn(out, K) ==
  IF K = {} THEN FromInt(1)
  ELSE LET k == SetMax(K)
       IN FMul(ProdOnePlusReturn(out, K \ {k}),
               FAdd(FromInt(1), out[k].daily_return))

\* C9: in every row compute_metrics returns, cum_return is the product of
\* (1 + daily_return) over the asset's rows up to that row, minus 1, with the
\* daily_return of the output; on the first row of an asset it is 0.
C9_CumReturnIsProduct ==
  cm.state = "Returned" =>
    \A j \in 1..Len(cm.out) :
      /\ cm.out[j].cum_return =
           FSub(ProdOnePlusReturn(cm.out, SameAssetUpTo(cm.df, j)), FromInt(1))
      /\ Cardinality(SameAssetUpTo(cm.df, j)) = 1 =>
           cm.out[j].cum_return = FromInt(0)

(***************************************************************************)
(* SpecEtl: run_etl called with a list of up to MaxCoinIds asset ids.      *)
(***************************************************************************)
MaxCoinIds == 2

InitEtl ==
  /\ sr = SrIdle /\ mc = McIdle /\ cm = CmIdle /\ cm2 = CmIdle
  /\ \E coin_ids \in SeqsUpTo(Coins, MaxCoinIds) : etl = EtlCall(coin_ids)
  /\ prices_csv = NoFile
  /\ md = MdIdle /\ meta_csv \in MetaFiles

NextEtl ==
  \/ EtlFetchAsset
  \/ EtlNoData
  \/ EtlComputeAndSave
  \/ EtlResolveMetadata
  \/ EtlSaveMetadata

SpecEtl == InitEtl /\ [][NextEtl]_vars

\* Frame df holds at most one row per (coin_id, date).
UniquePerAssetDate(df) ==
  \A j, k \in 1..Len(df) :
    (df[j].coin_id = df[k].coin_id /\ df[j].date = df[k].date) => j = k

\* Within each asset the rows of df are in ascending date order.
AscendingPerAsset(df) ==
  \A j, k \in 1..Len(df) :
    (j < k /\ df[j].coin_id = df[k].coin_id) => df[j].date < df[k].date

\* C6: whatever the list of asset ids, the frame compute_metrics is given and
\* the dataset run_etl saves hold at most one row per (coin_id, date), and the
\* frame is in ascending date order within each asset when compute_metrics runs.
C6_UniqueAndSortedDataset ==
  prices_csv.exists =>
    /\ UniquePerAssetDate(cm.df) /\ AscendingPerAsset(cm.df)
    /\ UniquePerAssetDate(prices_csv.rows)

(***************************************************************************)
(* SpecMeta: fetch_coin_metadata called on its own with a list of up to    *)
(* MaxCoinIds asset ids, META_CSV being in any of its states.              *)
(***************************************************************************)
InitMeta ==
  /\ sr = SrIdle /\ mc = McIdle /\ cm = CmIdle /\ cm2 = CmIdle
  /\ etl = EtlIdle /\ prices_csv = NoFile
  /\ \E coin_ids \in SeqsUpTo(Coins, MaxCoinIds) : md = MdCall(coin_ids)
  /\ meta_csv \in MetaFiles

NextMeta == FetchCoinMetadata

SpecMeta == InitMeta /\ [][NextMeta]_vars

\* The snapshot exists, can be read and holds every requested asset id.
SnapshotCoversRequest ==
  /\ meta_csv.exists /\ meta_csv.readable
  /\ \A k \in 1..Len(md.coin_ids) :
       \E j \in 1..Len(meta_csv.rows) : meta_csv.rows[j].coin_id = md.coin_ids[k]

\* C10: when the snapshot exists and holds every requested asset id,
\* fetch_coin_metadata returns the snapshot's records as they are, and has
\* neither called safe_request nor slept.
C10_CacheHitNoRequest ==
  (md.state = "Returned" /\ SnapshotCoversRequest) =>
    /\ md.out = meta_csv.rows
    /\ md.calls = 0 /\ md.slept = 0

\* Both assets requested, the snapshot holding both and returned as it is.
C10_Witness ==
  /\ md.state = "Returned" /\ SnapshotCoversRequest
  /\ md.coin_ids = <<"bitcoin", "ethereum">>
  /\ Len(meta_csv.rows) = 2 /\ md.out = meta_csv.rows /\ md.calls = 0

\* The records META_CSV held when fetch_coin_metadata read it: none when the
\* file is absent or unreadable.
PersistedRows == IF CanRead(meta_csv) THEN meta_csv.rows ELSE <<>>

\* Frame df holds each asset id at most once.
OneRecordPerId(df) ==
  \A j, k \in 1..Len(df) : df[j].coin_id = df[k].coin_id => j = k

\* Frame df holds record r.
HoldsRecord(df, r) == \E j \in 1..Len(df) : df[j] = r

\* C11: when the remote lookup succeeds, the returned frame is the merge by
\* coin_id of the persisted snapshot and the fetched records: every fetched
\* record is in it (also when the snapshot holds the same id), every record
\* of the snapshot whose id the fetch did not return is in it, it holds no
\* other id, and each id once.
C11_SuccessMergePrefersFetched ==
  md.path = "fetched" =>
    /\ \A k \in 1..Len(md.meta_rows) : HoldsRecord(md.out, md.meta_rows[k])
    /\ \A k \in 1..Len(PersistedRows) :
         PersistedRows[k].coin_id \notin Have(md.meta_rows) =>
           HoldsRecord(md.out, PersistedRows[k])
    /\ Have(md.out) = Have(PersistedRows) \cup Have(md.meta_rows)
    /\ OneRecordPerId(md.out)

\* The snapshot holds bitcoin with rank 1; bitcoin and ethereum are
\* requested and fetched, bitcoin with rank 2: the result holds the fetched
\* bitcoin record and not the persisted one.
C11_Witness ==
  /\ md.path = "fetched" /\ md.coin_ids = <<"bitcoin", "ethereum">>
  /\ CanRead(meta_csv) /\ Len(meta_csv.rows) = 1
  /\ meta_csv.rows[1].coin_id = "bitcoin"
  /\ meta_csv.rows[1].market_cap_rank = <<1>>
  /\ Len(md.meta_rows) = 2
  /\ HoldsRecord(md.meta_rows, MetaRows([kind |-> "list", items |-> <<ApiRow("bitcoin", 2)>>])[1])
  /\ HoldsRecord(md.out, MetaRows([kind |-> "list", items |-> <<ApiRow("bitcoin", 2)>>])[1])
  /\ ~HoldsRecord(md.out, meta_csv.rows[1])
  /\ Len(md.out) = 2

\* The requested ids form a set: no id is requested twice.
RequestIsSet ==
  \A j, k \in 1..Len(md.coin_ids) : md.coin_ids[j] = md.coin_ids[k] => j = k

\* C12: when the lookup fails, for a set of requested ids the returned frame
\* holds each id once: every record of the persisted snapshot as persisted
\* (also when its id was requested), and for every requested id the snapshot
\* lacks a placeholder with the symbol and name derived from the id and no
\* rank; no other id. With no readable snapshot and <<"bitcoin">> requested
\* the frame is the single placeholder of bitcoin.
C12_FailureMergePrefersPersisted ==
  (md.path = "fallback" /\ RequestIsSet) =>
    /\ OneRecordPerId(md.out)
    /\ \A k \in 1..Len(PersistedRows) : HoldsRecord(md.out, PersistedRows[k])
    /\ \A k \in 1..Len(md.coin_ids) :
         md.coin_ids[k] \notin Have(PersistedRows) =>
           HoldsRecord(md.out, [coin_id |-> md.coin_ids[k],
                                symbol |-> FallbackSymbol[md.coin_ids[k]],
                                name |-> FallbackName[md.coin_ids[k]],
                                market_cap_rank |-> <<>>])
    /\ Have(md.out) = Have(PersistedRows) \cup {md.coin_ids[k] : k \in 1..Len(md.coin_ids)}
    /\ (~CanRead(meta_csv) /\ md.coin_ids = <<"bitcoin">>) =>
         md.out = <<[coin_id |-> "bitcoin", symbol |-> "BITC", name |-> "Bitcoin",
                     market_cap_rank |-> <<>>]>>

\* The snapshot holds bitcoin with rank 1; bitcoin and ethereum are
\* requested and the lookup fails: the result is the persisted bitcoin record
\* followed by the placeholder of ethereum.
C12_Witness ==
  /\ md.path = "fallback" /\ md.coin_ids = <<"bitcoin", "ethereum">>
  /\ CanRead(meta_csv) /\ Len(meta_csv.rows) = 1
  /\ meta_csv.rows[1].coin_id = "bitcoin"
  /\ meta_csv.rows[1].market_cap_rank = <<1>>
  /\ md.out = <<meta_csv.rows[1],
                [coin_id |-> "ethereum", symbol |-> "ETHE", name |-> "Ethereum",
                 market_cap_rank |-> <<>>]>>

\* C13: fetch_coin_metadata never raises to run_etl: whatever the snapshot
\* (absent, unreadable, partial, complete) and whatever the outcome of its
\* safe_request call, it has returned a frame by one of its three return
\* statements, and run_etl never ends by raising once the price dataset has
\* been saved.
C13_MetadataNeverRaises ==
  /\ md.state \in {"Idle", "Returned"}
  /\ md.state = "Returned" =>
       (md.error.type = "none" /\ md.path \in {"cache", "fetched", "fallback"})
  /\ etl.state \in {"MetaResolved", "Done"} => md.state = "Returned"
  /\ prices_csv.exists => etl.state # "Raised"

\* The snapshot is unreadable and safe_request raised its RuntimeError: the
\* call returned the placeholders of the two assets of the saved dataset and
\* run_etl goes on to save them.
C13_Witness ==
  /\ etl.state = "MetaResolved" /\ prices_csv.exists
  /\ meta_csv = UnreadableFile
  /\ md.state = "Returned" /\ md.caught = "RuntimeError" /\ md.calls = 1
  /\ md.out = FallbackMetaFromIds(<<"bitcoin", "ethereum">>)

\* The loop of lines 167-174 has gone through every requested asset and
\* every fetch returned an empty series.
AllFetchesEmpty ==
  etl.state # "Idle" /\ etl.k > Len(etl.coin_ids) /\ etl.frames = <<>>

\* C15: when every requested asset's fetch returned an empty series, run_etl
\* raises RuntimeError and does nothing else: the run is at the check of line
\* 176 or has raised there, the price dataset is not written, no metadata
\* lookup is made and the snapshot file is left as it was.
C15_NoDataRaisesAndPersistsNothing ==
  /\ [](AllFetchesEmpty =>
          /\ etl.state \in {"Fetching", "Raised"}
          /\ etl.state = "Raised" =>
                etl.error = [type |-> "RuntimeError",
                             message |-> "Nenhum dado retornado."]
          /\ ~prices_csv.exists
          /\ md = MdIdle)
  /\ [][(AllFetchesEmpty /\ etl.state = "Fetching") =>
          /\ etl'.state = "Raised"
          /\ UNCHANGED <<prices_csv, meta_csv, md>>]_vars

\* Both assets requested over a readable snapshot, both fetches empty: the
\* run has raised, no dataset exists and no lookup was made.
C15_Witness ==
  /\ etl.state = "Raised" /\ etl.coin_ids = <<"bitcoin", "ethereum">>
  /\ AllFetchesEmpty /\ etl.error.type = "RuntimeError"
  /\ CanRead(meta_csv) /\ ~prices_csv.exists /\ md.calls = 0

\* The asset ids of the frames the loop of lines 167-174 collected.
FrameIds == {etl.frames[i][1].coin_id : i \in 1..Len(etl.frames)}

\* The run is at, or has gone through, the fetch of an asset.
FetchingAnAsset == etl.state = "Fetching" /\ etl.k <= Len(etl.coin_ids)

\* C16: a fetch that returns an empty frame is no error: run_etl moves to the
\* next asset with its frames as they were; and once every asset was fetched
\* and some frame was collected, the run does not raise, the dataset it
\* saves holds rows for exactly the assets of the collected frames, and
\* fetch_coin_metadata is called with exactly those asset ids, each once.
C16_EmptySeriesSkipped ==
  /\ [][(FetchingAnAsset /\ mc'.state = "Returned" /\ mc'.df = <<>>) =>
          /\ etl'.state = "Fetching" /\ etl'.error.type = "none"
          /\ etl'.k = etl.k + 1 /\ etl'.frames = etl.frames]_vars
  /\ []((etl.state # "Idle" /\ etl.k > Len(etl.coin_ids) /\ etl.frames # <<>>) =>
          /\ etl.state \in {"Fetching", "PricesSaved", "MetaResolved", "Done"}
          /\ etl.state # "Fetching" =>
                (CanRead(prices_csv) /\ Have(prices_csv.rows) = FrameIds)
          /\ etl.state \in {"MetaResolved", "Done"} =>
                /\ {md.coin_ids[i] : i \in 1..Len(md.coin_ids)} = FrameIds
                /\ Len(md.coin_ids) = Cardinality(FrameIds))

\* bitcoin yielded two rows and ethereum, fetched after it, none: the run
\* is done, the dataset holds bitcoin's rows and metadata was resolved for
\* bitcoin alone.
C16_Witness ==
  /\ etl.state = "Done" /\ etl.coin_ids = <<"bitcoin", "ethereum">>
  /\ mc.coin_id = "ethereum" /\ mc.state = "Returned" /\ mc.df = <<>>
  /\ Len(prices_csv.rows) = 2 /\ Have(prices_csv.rows) = {"bitcoin"}
  /\ md.coin_ids = <<"bitcoin">>

\* The place of an event in the order of run_etl: the fetches, then the
\* metrics, then the price dataset, then metadata resolution, then the
\* snapshot; a sleep has no place of its own.
Phase(ev) ==
  CASE ev = "fetch" -> 1
    [] ev = "metrics" -> 2
    [] ev = "save_prices" -> 3
    [] ev \in {"read_meta", "request_meta"} -> 4
    [] ev = "save_meta" -> 5
    [] OTHER -> 0

\* The events of the run so far without its sleeps.
Steps == SelectSeq(etl.log, LAMBDA ev : ev # "sleep")

\* How many times event ev is in sequence q.
Count(q, ev) == Cardinality({i \in 1..Len(q) : q[i] = ev})

\* C17: in every run the events come in the order of the phases: every
\* fetch before the metrics, the metrics before the price dataset is saved,
\* the price dataset saved before any read of the snapshot or metadata
\* request, and the snapshot written after all of these, once at most; a
\* completed run has computed metrics once, saved the dataset once and
\* written the snapshot last.
C17_StepsInOrder ==
  /\ \A i, j \in 1..Len(Steps) : i < j => Phase(Steps[i]) <= Phase(Steps[j])
  /\ Count(Steps, "save_meta") <= 1
  /\ Count(Steps, "metrics") <= 1 /\ Count(Steps, "save_prices") <= 1
  /\ etl.state = "Done" =>
       /\ Steps[Len(Steps)] = "save_meta"
       /\ Count(Steps, "metrics") = 1 /\ Count(Steps, "save_prices") = 1
       /\ Count(Steps, "fetch") = Len(etl.coin_ids)

\* Two assets fetched, the snapshot read, found to lack one of them, the
\* request made, the snapshot read again for the merge and then written.
C17_Witness ==
  /\ etl.state = "Done"
  /\ Steps = <<"fetch", "fetch", "metrics", "save_prices", "read_meta",
               "request_meta", "read_meta", "save_meta">>

\* The requests to the upstream and the sleeps of the run so far: a "fetch"
\* is the request of one asset's prices.
RequestsAndSleeps ==
  SelectSeq(etl.log, LAMBDA ev : ev \in {"fetch", "request_meta", "sleep"})

\* No asset id is requested twice in this run.
RunRequestIsSet ==
  \A j, k \in 1..Len(etl.coin_ids) : etl.coin_ids[j] = etl.coin_ids[k] => j = k

\* C18: in a run over different assets a sleep lies between any two
\* consecutive price fetches, whatever the first of them returned, and before
\* the metadata request: no request to the upstream directly follows another.
C18_PauseBetweenRequests ==
  RunRequestIsSet =>
    \A i \in 1..(Len(RequestsAndSleeps) - 1) :
      RequestsAndSleeps[i] # "sleep" => RequestsAndSleeps[i + 1] = "sleep"

\* C20: whenever fetch_coin_metadata has returned, by any of its three
\* return statements, the returned frame holds a record for every requested
\* asset id.
C20_EveryRequestedIdResolved ==
  md.state = "Returned" =>
    \A k \in 1..Len(md.coin_ids) : md.coin_ids[k] \in Have(md.out)

(***************************************************************************)
(* SpecRuns: run_etl called up to MaxRuns times, one run after the other,  *)
(* starting without output files. The upstream answers a price request     *)
(* with one point or with none.                                            *)
(***************************************************************************)
RunsChartBodies == {[prices |-> <<>>], [prices |-> << <<0, 10>> >>]}

RunsFetchAsset == EtlFetchAssetFrom(RunsChartBodies)

\* The number of calls of run_etl a behaviour makes, one after the other.
MaxRuns == 2

\* The batch job is run again once a run has ended, by completing or by
\* raising: the files are as the earlier runs left them, nothing else is kept.
EtlRunAgain ==
  /\ etl.state \in {"Done", "Raised"} /\ etl.run < MaxRuns
  /\ \E coin_ids \in SeqsUpTo(Coins, MaxCoinIds) :
       etl' = [EtlCall(coin_ids) EXCEPT !.run = etl.run + 1]
  /\ mc' = McIdle /\ cm' = CmIdle /\ md' = MdIdle
  /\ UNCHANGED <<sr, cm2, prices_csv, meta_csv>>

InitRuns ==
  /\ sr = SrIdle /\ mc = McIdle /\ cm = CmIdle /\ cm2 = CmIdle
  /\ \E coin_ids \in SeqsUpTo(Coins, MaxCoinIds) : etl = EtlCall(coin_ids)
  /\ prices_csv = NoFile
  /\ md = MdIdle /\ meta_csv = NoFile

NextRuns ==
  \/ RunsFetchAsset
  \/ EtlNoData
  \/ EtlComputeAndSave
  \/ EtlResolveMetadata
  \/ EtlSaveMetadata
  \/ EtlRunAgain

SpecRuns == InitRuns /\ [][NextRuns]_vars

\* The asset ids a reader finds in snapshot file f.
SnapshotIds(f) == IF CanRead(f) THEN Have(f.rows) ELSE {}

\* C14: no step of any run removes an asset id from the persisted snapshot:
\* the ids the snapshot held before a step are among those it holds after
\* it, in particular across the write that ends a run.
C14_SnapshotNeverShrinks ==
  [][SnapshotIds(meta_csv) \subseteq SnapshotIds(meta_csv')]_vars

\* Second run, for ethereum alone, over a snapshot the first run wrote with
\* bitcoin's listed record; the lookup failed and the snapshot written holds
\* bitcoin's record still, before ethereum's placeholder.
C14_Witness ==
  /\ etl.run = 2 /\ etl.state = "Done" /\ etl.coin_ids = <<"ethereum">>
  /\ md.path = "fallback"
  /\ CanRead(meta_csv) /\ Len(meta_csv.rows) = 2
  /\ meta_csv.rows[1] = MetaRows([kind |-> "list", items |-> <<ApiRow("bitcoin", 1)>>])[1]
  /\ meta_csv.rows[2] = FallbackMetaFromIds(<<"ethereum">>)[1]

====
